---- MODULE Spec2Model ----
(***************************************************************************)
(* Model of the PackageLink updater (src/src/main.rs): the collection of   *)
(* the places of a universe and the scan of each place for PackageLink     *)
(* instances, the deduplicated bounded fan-out that fetches the package    *)
(* assets, the transplant of each package into the place DOM, the local    *)
(* save, the publish prompt, the bounded fan-out that publishes the saved  *)
(* places, and the lists of failure records main prints.                   *)
(*                                                                         *)
(* A WeakDom is a record [root, inst] where inst maps every live referent  *)
(* to its instance [parent, children, class, pid].  Referents are naturals *)
(* drawn from a counter, so two decodes never share a referent.            *)
(***************************************************************************)
EXTENDS Naturals, Sequences, FiniteSets

\* ------------------------------------------------------------------ bounds
\* Largest number of places handed to process_places_and_save.
MaxPlaces == 2
\* Largest number of tasks handed to one buffer_unordered fan-out.
MaxTasks == 4
\* Largest number of tasks of one fan-out that may fail.
MaxFailing == 1

\* --------------------------------------------------------- program constants
\* .buffer_unordered(3)
PoolWidth == 3
\* Ref::none(), the parent of a root instance
NoneRef == 0

\* ------------------------------------------------------------ sequences
SeqToSet(s) == {s[i] : i \in 1..Len(s)}

Remove(s, x) == SelectSeq(s, LAMBDA y : y # x)

\* ------------------------------------------------------------------ WeakDom
\* The PackageId property of an instance: absent, a string, or a ContentId
\* whose text is prefix ++ rest.
NoProp == [variant |-> "Missing", prefix |-> "", rest |-> NoneRef]
ContentId(prefix, rest) == [variant |-> "ContentId", prefix |-> prefix, rest |-> rest]

\* a PackageId that is a Variant other than ContentId
StringProp == [variant |-> "String", prefix |-> "", rest |-> NoneRef]

AssetPrefix == "rbxassetid://"

Refs(dom) == DOMAIN dom.inst

Children(dom, r) == dom.inst[r].children

Parent(dom, r) == dom.inst[r].parent

\* referent and all its descendants
RECURSIVE SubtreeOf(_, _)
SubtreeOf(dom, r) ==
  {r} \cup UNION {SubtreeOf(dom, c) : c \in SeqToSet(Children(dom, r))}

\* WeakDom::descendants(): breadth-first from the root, the root included
RECURSIVE BfsFrom(_, _)
BfsFrom(dom, queue) ==
  IF queue = <<>> THEN <<>>
  ELSE <<Head(queue)>> \o BfsFrom(dom, Tail(queue) \o Children(dom, Head(queue)))

Descendants(dom) == BfsFrom(dom, <<dom.root>>)

\* WeakDom::destroy(referent): panics on the root and on a dead referent,
\* otherwise removes the instance and all its descendants.
DestroyOk(dom, r) == r # dom.root /\ r \in Refs(dom)

Destroy(dom, r) ==
  LET gone == SubtreeOf(dom, r)
      p == Parent(dom, r)
  IN [root |-> dom.root,
      inst |-> [x \in Refs(dom) \ gone |->
                  IF x = p
                  THEN [dom.inst[x] EXCEPT !.children = Remove(@, r)]
                  ELSE dom.inst[x]]]

\* WeakDom::transfer(referent, dest, dest_parent): panics on the root, on a
\* dead referent and on a dead dest_parent; otherwise moves the instance and
\* all its descendants, referents kept, under dest_parent (appended last).
TransferOk(src, r, dest, dest_parent) ==
  r # src.root /\ r \in Refs(src) /\ dest_parent \in Refs(dest)

TransferSrc(src, r) ==
  LET moved == SubtreeOf(src, r)
      p == Parent(src, r)
  IN [root |-> src.root,
      inst |-> [x \in Refs(src) \ moved |->
                  IF x = p
                  THEN [src.inst[x] EXCEPT !.children = Remove(@, r)]
                  ELSE src.inst[x]]]

TransferDest(src, r, dest, dest_parent) ==
  LET moved == SubtreeOf(src, r)
  IN [root |-> dest.root,
      inst |-> [x \in Refs(dest) \cup moved |->
                  IF x = r THEN [src.inst[x] EXCEPT !.parent = dest_parent]
                  ELSE IF x \in moved THEN src.inst[x]
                  ELSE IF x = dest_parent
                  THEN [dest.inst[x] EXCEPT !.children = Append(@, r)]
                  ELSE dest.inst[x]]]

\* ------------------------------------------------------------ rbx_binary
\* A template lists the instances of a file in order; entry i is
\* [parent (an index, 0 for the root), class, pid].  Decoding gives entry i
\* the referent base + i.
Node(parent, class, pid) == [parent |-> parent, class |-> class, pid |-> pid]

BuildDom(template, base) ==
  LET n == Len(template)
      kids(i) == SelectSeq([j \in 1..n |-> j], LAMBDA j : template[j].parent = i)
  IN [root |-> base + 1,
      inst |-> [x \in {base + i : i \in 1..n} |->
                  LET i == x - base
                  IN [parent |-> IF template[i].parent = 0 THEN NoneRef
                                 ELSE base + template[i].parent,
                      children |-> [k \in 1..Len(kids(i)) |-> base + kids(i)[k]],
                      class |-> template[i].class,
                      pid |-> template[i].pid]]]


\* rbx_binary::from_reader on a place file: the catalogue of place files.
\* Every file has a DataModel root; the PackageLinks carry package 1 or 2.
PlaceFile(shape) ==
  LET root == Node(0, "DataModel", NoProp)
      ws == Node(1, "Workspace", NoProp)
      pl(parent, id) == Node(parent, "PackageLink", ContentId(AssetPrefix, id))
  IN CASE shape = "simple" ->
            <<root, ws, Node(2, "Model", NoProp), pl(3, 1), Node(3, "Part", NoProp)>>
       [] shape = "two" ->
            <<root, ws, Node(2, "Model", NoProp), Node(2, "Model", NoProp),
              pl(3, 1), pl(4, 2)>>
       [] shape = "twosame" ->
            <<root, ws, Node(2, "Model", NoProp), Node(2, "Model", NoProp),
              pl(3, 1), pl(4, 1)>>
       [] shape = "nested" ->
            <<root, ws, Node(2, "Model", NoProp), pl(3, 1),
              Node(3, "Model", NoProp), pl(5, 2)>>
       [] shape = "shared" ->
            <<root, ws, Node(2, "Model", NoProp), pl(3, 1), pl(3, 2)>>
       [] shape = "toplevel" ->
            <<root, Node(1, "Model", NoProp), pl(2, 2)>>
       [] shape = "linkchild" ->
            <<root, ws, Node(2, "Model", NoProp), pl(3, 2),
              Node(4, "Configuration", NoProp)>>
       [] shape = "rootlink" ->
            <<root, pl(1, 1)>>
       [] shape = "mixed" ->
            <<root, ws, Node(2, "Model", NoProp), Node(2, "Model", NoProp),
              Node(2, "Model", NoProp), Node(2, "Model", NoProp),
              Node(2, "Model", NoProp),
              pl(3, 1),
              Node(4, "PackageLink", NoProp),
              Node(5, "PackageLink", StringProp),
              Node(6, "PackageLink", ContentId("http://", 2)),
              pl(7, 2)>>

PlaceShapes ==
  {"simple", "two", "twosame", "nested", "shared", "toplevel", "linkchild", "rootlink"}

\* One place of the listing with what the requests for it will meet: "ok"
\* and the file the CDN serves, or the step that fails.
OkEntry(file) == [fate |-> "ok", file |-> file]

FailEntry(fate) == [fate |-> fate, file |-> <<>>]

\* A place file with n packages side by side, package i under wrapper i.
FlatFile(n) ==
  <<Node(0, "DataModel", NoProp), Node(1, "Workspace", NoProp)>>
  \o [i \in 1..n |-> Node(2, "Model", NoProp)]
  \o [i \in 1..n |-> Node(2 + i, "PackageLink", ContentId(AssetPrefix, i))]

\* rbx_binary::from_reader on package bytes.  "bad" does not decode, "empty"
\* decodes to a DOM whose root has no children, "tree" to root -> Model ->
\* Part, "forest" to a root with two top-level instances.
PackageBytes == {"bad", "empty", "tree", "forest"}

DecodeOk(bytes) == bytes # "bad"

PackageFile(bytes) ==
  LET root == Node(0, "DataModel", NoProp)
  IN CASE bytes = "empty" -> <<root>>
       [] bytes = "tree" -> <<root, Node(1, "Model", NoProp), Node(2, "Part", NoProp)>>
       [] bytes = "forest" ->
            <<root, Node(1, "Model", NoProp), Node(2, "Part", NoProp),
              Node(1, "Folder", NoProp)>>

\* ------------------------------------------------------ failure records
\* One string sent on failed_tx: what failed, for which package and place
\* (NoneRef where the message names none).
Msg(kind, package, place) == [kind |-> kind, package |-> package, place |-> place]

\* ------------------------------------------------------------------- scan
\* the scan that takes any ContentId, whatever its prefix
ScanInstance_AnyPrefix(dom, r, place) ==
  LET i == dom.inst[r]
  IN IF i.class # "PackageLink" THEN [work |-> <<>>, msgs |-> <<>>]
     ELSE IF i.pid.variant # "ContentId"
     THEN [work |-> <<>>, msgs |-> <<Msg("no_package_id", NoneRef, place)>>]
     ELSE [work |-> <<[package_id_numbers |-> i.pid.rest,
                       package_link |-> r,
                       package_link_group |-> i.parent,
                       package_link_parent |-> Parent(dom, i.parent)]>>,
           msgs |-> <<>>]

\* The scan of one decoded place for PackageLink instances.
ScanInstance(dom, r, place) ==
  LET i == dom.inst[r]
  IN IF i.class # "PackageLink" THEN [work |-> <<>>, msgs |-> <<>>]
     ELSE IF i.pid.variant # "ContentId"
     THEN [work |-> <<>>, msgs |-> <<Msg("no_package_id", NoneRef, place)>>]
     ELSE IF i.pid.prefix # AssetPrefix
     THEN [work |-> <<>>, msgs |-> <<Msg("bad_package_id", NoneRef, place)>>]
     ELSE [work |-> <<[package_id_numbers |-> i.pid.rest,
                       package_link |-> r,
                       package_link_group |-> i.parent,
                       package_link_parent |-> Parent(dom, i.parent)]>>,
           msgs |-> <<>>]

RECURSIVE ScanFrom(_, _, _)
ScanFrom(dom, order, place) ==
  IF order = <<>> THEN [work |-> <<>>, msgs |-> <<>>]
  ELSE LET here == ScanInstance(dom, Head(order), place)
           rest == ScanFrom(dom, Tail(order), place)
       IN [work |-> here.work \o rest.work, msgs |-> here.msgs \o rest.msgs]

Scan(dom, place) == ScanFrom(dom, Descendants(dom), place)


\* ------------------------------------------------------------ transplant
\* What handling one ToWork leaves: the place DOM, the replacements counter,
\* the records sent on failed_tx, whether the thread panicked, and the
\* referent counter.
Handled(dom, replacements, msgs, panicked, next) ==
  [dom |-> dom, replacements |-> replacements, msgs |-> msgs,
   panicked |-> panicked, next |-> next]

\* NoAsset that forgets to send the record
NoAsset_Silent(place, dom, replacements, work, next) ==
  Handled(dom, replacements, <<>>, FALSE, next)

\* NoAsset that falls through to `replacements += 1`
NoAsset_Counted(place, dom, replacements, work, next) ==
  Handled(dom, replacements + 1,
          <<Msg("no_asset", work.package_id_numbers, place)>>, FALSE, next)

\* package_bytes_map.get(..) is None
NoAsset(place, dom, replacements, work, next) ==
  Handled(dom, replacements,
          <<Msg("no_asset", work.package_id_numbers, place)>>, FALSE, next)

\* DecodeFailed that falls through to `replacements += 1`
DecodeFailed_Counted(place, dom, replacements, work, next) ==
  Handled(dom, replacements + 1,
          <<Msg("package_parse_failed", work.package_id_numbers, NoneRef)>>, FALSE, next)

\* rbx_binary::from_reader(package_reader) is Err
DecodeFailed(place, dom, replacements, work, next) ==
  Handled(dom, replacements,
          <<Msg("package_parse_failed", work.package_id_numbers, NoneRef)>>, FALSE, next)

\* package_dom.root().children()[0]: an index out of bounds panics
HasPackageRoot(package_dom) == Len(Children(package_dom, package_dom.root)) >= 1

PackageRoot(package_dom) == Children(package_dom, package_dom.root)[1]

\* Splice that leaves out `place.dom.destroy(work.package_link_group)`
Splice_KeepsWrapper(dom, replacements, work, package_dom, next) ==
  LET package_root == PackageRoot(package_dom)
      link == work.package_link
      parent == work.package_link_parent
  IN IF ~ TransferOk(dom, link, package_dom, package_root)
     THEN Handled(dom, replacements, <<>>, TRUE, next)
     ELSE LET dom1 == TransferSrc(dom, link)
              package1 == TransferDest(dom, link, package_dom, package_root)
          IN IF ~ TransferOk(package1, package_root, dom1, parent)
             THEN Handled(dom1, replacements, <<>>, TRUE, next)
             ELSE Handled(TransferDest(package1, package_root, dom1, parent),
                          replacements + 1, <<>>, FALSE, next)

\* The three calls on the two DOMs, in the order of the code.
Splice(dom, replacements, work, package_dom, next) ==
  LET package_root == PackageRoot(package_dom)
      link == work.package_link
      group == work.package_link_group
      parent == work.package_link_parent
  IN IF ~ TransferOk(dom, link, package_dom, package_root)
     THEN Handled(dom, replacements, <<>>, TRUE, next)
     ELSE LET dom1 == TransferSrc(dom, link)
              package1 == TransferDest(dom, link, package_dom, package_root)
          IN IF ~ DestroyOk(dom1, group)
             THEN Handled(dom1, replacements, <<>>, TRUE, next)
             ELSE LET dom2 == Destroy(dom1, group)
                  IN IF ~ TransferOk(package1, package_root, dom2, parent)
                     THEN Handled(dom2, replacements, <<>>, TRUE, next)
                     ELSE Handled(TransferDest(package1, package_root, dom2, parent),
                                  replacements + 1, <<>>, FALSE, next)

\* The body of `for work in place.to_work.iter()`.
HandleWork(place, dom, replacements, work, cache, next) ==
  IF work.package_id_numbers \notin DOMAIN cache
  THEN NoAsset(place, dom, replacements, work, next)
  ELSE LET bytes == cache[work.package_id_numbers]
       IN IF ~ DecodeOk(bytes)
          THEN DecodeFailed(place, dom, replacements, work, next)
          ELSE LET package_dom == BuildDom(PackageFile(bytes), next)
                   after == next + Len(PackageFile(bytes))
               IN IF ~ HasPackageRoot(package_dom)
                  THEN Handled(dom, replacements, <<>>, TRUE, after)
                  ELSE Splice(dom, replacements, work, package_dom, after)


\* rbx_binary::to_writer(&mut buffer, &dom, dom.root().children()): the file
\* lists the instances breadth-first, each with the index of its parent; the
\* referents are not written.
IndexIn(order, r) == CHOOSE i \in 1..Len(order) : order[i] = r

Encode(dom) ==
  LET order == Descendants(dom)
  IN [i \in 1..Len(order) |->
        LET x == dom.inst[order[i]]
        IN Node(IF x.parent = NoneRef THEN 0 ELSE IndexIn(order, x.parent),
                x.class, x.pid)]

\* ------------------------------------------------------------------ state
VARIABLES
  pc,                \* where main is
  places_data,       \* Vec<PlaceData>: [id, dom, to_work]
  failed,            \* the records sent on failed_tx and not yet received
  packages_vec,      \* the package ids handed to fetch_package_assets
  ftask,             \* fetch fan-out: the phase of each task
  package_results,   \* fetch fan-out: the results collected so far
  package_bytes_map, \* the byte cache
  meta_lookups,      \* per package id, metadata requests issued
  cdn_fetches,       \* per package id, CDN requests issued
  cdn_content,       \* per package id, the bytes the CDN serves
  place_idx,         \* process_places_and_save: the place being handled
  work_idx,          \* process_places_and_save: the ToWork being handled
  replacements,      \* process_places_and_save: replacements of this place
  next_ref,          \* the next fresh referent
  saved_places,      \* Vec<SavedPlace>: [id, buffer]
  files,             \* rbxls/<id>.rbxl
  ptask,             \* publish fan-out: the phase of each task
  publish_results,   \* publish fan-out: the results collected so far
  uploads,           \* per place id, upload requests issued
  summary,           \* the "Publishing complete" line
  listing,           \* the places the listing endpoint returns, with their fate
  more_places,       \* the places on the pages next_page_cursor leads to
  collect_idx,       \* collect_places_and_package_ids: the place being handled
  handled,           \* process_places_and_save: the iterations over this place
  early_failures,    \* the records printed before the publish prompt
  publish_confirm,   \* the answer to the publish prompt, once given
  remaining,         \* the records printed after publishing was declined
  failures,          \* the records printed after publishing
  senders            \* the live clones of failed_tx, main's own included

vars ==
  <<pc, places_data, failed, packages_vec, ftask, package_results,
    package_bytes_map, meta_lookups, cdn_fetches, cdn_content, place_idx,
    work_idx, replacements, next_ref, saved_places, files, ptask,
    publish_results, uploads, summary, listing, more_places, collect_idx, handled,
    early_failures, publish_confirm, remaining, failures, senders>>

fetchVars ==
  <<packages_vec, ftask, package_results, package_bytes_map, meta_lookups,
    cdn_fetches, cdn_content>>

processVars ==
  <<place_idx, work_idx, replacements, next_ref, saved_places, files, handled>>

publishVars == <<ptask, publish_results, uploads, summary>>

mainVars ==
  <<listing, more_places, collect_idx, early_failures, publish_confirm, remaining,
    failures>>

\* ------------------------------------------------- process_places_and_save
CurrentPlace == places_data[place_idx]

CurrentWork == CurrentPlace.to_work[work_idx]

AtWork ==
  /\ pc = "process"
  /\ place_idx <= Len(places_data)
  /\ work_idx <= Len(CurrentPlace.to_work)

\* One iteration of `for work in place.to_work.iter()`.
ProcessWork ==
  /\ AtWork
  /\ LET h == HandleWork(CurrentPlace.id, CurrentPlace.dom, replacements,
                         CurrentWork, package_bytes_map, next_ref)
     IN /\ places_data' = [places_data EXCEPT ![place_idx].dom = h.dom]
        /\ replacements' = h.replacements
        /\ failed' = failed \o h.msgs
        /\ next_ref' = h.next
        /\ handled' = Append(handled, [work |-> work_idx,
                                       replaced |-> h.replacements - replacements,
                                       sent |-> Len(h.msgs),
                                       panicked |-> h.panicked])
        /\ IF h.panicked
           THEN pc' = "panicked" /\ work_idx' = work_idx /\ senders' = 0
           ELSE pc' = pc /\ work_idx' = work_idx + 1 /\ senders' = senders
  /\ UNCHANGED <<place_idx, saved_places, files>>
  /\ UNCHANGED <<fetchVars, publishVars>>
  /\ UNCHANGED mainVars

AtSave ==
  /\ pc = "process"
  /\ place_idx <= Len(places_data)
  /\ work_idx > Len(CurrentPlace.to_work)

\* the save that pushes the place without writing rbxls/<id>.rbxl
SerializeAndSave_NoWrite ==
  /\ AtSave
  /\ saved_places' =
       Append(saved_places, [id |-> CurrentPlace.id, buffer |-> Encode(CurrentPlace.dom)])
  /\ place_idx' = place_idx + 1
  /\ work_idx' = 1
  /\ replacements' = 0
  /\ handled' = <<>>
  /\ UNCHANGED <<pc, places_data, failed, next_ref, files>>
  /\ UNCHANGED <<fetchVars, publishVars>>
  /\ UNCHANGED mainVars
  /\ UNCHANGED senders

\* to_writer, create_dir_all and write all succeed; the place is pushed.
SerializeAndSave ==
  /\ AtSave
  /\ LET buffer == Encode(CurrentPlace.dom)
     IN /\ files' = [id \in DOMAIN files \cup {CurrentPlace.id} |->
                       IF id = CurrentPlace.id THEN buffer ELSE files[id]]
        /\ saved_places' = Append(saved_places, [id |-> CurrentPlace.id, buffer |-> buffer])
  /\ place_idx' = place_idx + 1
  /\ work_idx' = 1
  /\ replacements' = 0
  /\ handled' = <<>>
  /\ UNCHANGED <<pc, places_data, failed, next_ref>>
  /\ UNCHANGED <<fetchVars, publishVars>>
  /\ UNCHANGED mainVars
  /\ UNCHANGED senders

\* the save that pushes the place before the write that fails
SaveFails_AfterPush ==
  /\ AtSave
  /\ saved_places' =
       Append(saved_places, [id |-> CurrentPlace.id, buffer |-> Encode(CurrentPlace.dom)])
  /\ pc' = "err_write"
  /\ UNCHANGED <<places_data, failed, place_idx, work_idx, replacements, next_ref,
                 files, handled>>
  /\ UNCHANGED <<fetchVars, publishVars>>
  /\ UNCHANGED mainVars
  /\ senders' = 0

\* to_writer, create_dir_all or write is Err: `?` returns it from main.
SaveFails ==
  /\ AtSave
  /\ pc' = "err_write"
  /\ UNCHANGED <<places_data, failed, processVars, fetchVars, publishVars>>
  /\ UNCHANGED mainVars
  /\ senders' = 0

\* Ok(saved_places)
ProcessReturn ==
  /\ pc = "process"
  /\ place_idx > Len(places_data)
  /\ pc' = "drain_early"
  /\ UNCHANGED <<places_data, failed, processVars, fetchVars, publishVars>>
  /\ UNCHANGED mainVars
  /\ senders' = senders - 1

NextProcess == ProcessWork \/ SerializeAndSave \/ SaveFails \/ ProcessReturn


\* --------------------------------------------------- what the stages hand on
\* The Vec<PlaceData> collect_places_and_package_ids returns for a listing
\* whose places all decode: place k has id k and fresh referents.
RECURSIVE BaseOf(_, _)
BaseOf(place_files, k) ==
  IF k = 1 THEN 0 ELSE BaseOf(place_files, k - 1) + Len(place_files[k - 1])

PlacesFrom(place_files) ==
  [k \in 1..Len(place_files) |->
     LET dom == BuildDom(place_files[k], BaseOf(place_files, k))
     IN [id |-> k, dom |-> dom, to_work |-> Scan(dom, k).work]]

ShapeSeqs ==
  UNION {[1..n -> {PlaceFile(shape) : shape \in PlaceShapes}] : n \in 0..MaxPlaces}

\* main: the HashSet of every to_work's package_id_numbers
UniquePackages(places) ==
  UNION {{places[k].to_work[i].package_id_numbers : i \in 1..Len(places[k].to_work)} :
           k \in 1..Len(places)}

\* unique_packages.into_iter().collect(): the Vec, here in ascending order
RECURSIVE Ascending(_)
Ascending(S) ==
  IF S = {} THEN <<>>
  ELSE LET m == CHOOSE x \in S : \A y \in S : x <= y
       IN <<m>> \o Ascending(S \ {m})

\* One element of package_results.
OkResult(id, bytes) == [ok |-> TRUE, id |-> id, bytes |-> bytes, tag |-> ""]

ErrResult(id, tag) == [ok |-> FALSE, id |-> id, bytes |-> "", tag |-> tag]

\* the map that also takes the Err results, with their empty bytes
CollectMap_All(results) ==
  [id \in {results[i].id : i \in 1..Len(results)} |->
     results[CHOOSE i \in 1..Len(results) : results[i].id = id].bytes]

\* The loop over package_results: the map of the Ok results (a later insert
\* of the same key replaces the earlier one) ...
LastOk(results, id) ==
  CHOOSE i \in 1..Len(results) :
    /\ results[i].ok /\ results[i].id = id
    /\ \A j \in (i + 1)..Len(results) : ~ (results[j].ok /\ results[j].id = id)

CollectMap(results) ==
  [id \in {results[i].id : i \in {j \in 1..Len(results) : results[j].ok}} |->
     results[LastOk(results, id)].bytes]

\* the loop that sends nothing for an Err result
CollectMsgs_None(results) == <<>>

\* ... and one record per Err result, in the order of the results.
RECURSIVE CollectMsgs(_)
CollectMsgs(results) ==
  IF results = <<>> THEN <<>>
  ELSE (IF Head(results).ok THEN <<>>
        ELSE <<Msg("fetch_failed", Head(results).id, NoneRef)>>)
       \o CollectMsgs(Tail(results))

\* The record a fetch task sends when it returns Err((id, tag)).
TaskMsg(id, tag) == Msg(tag, id, NoneRef)

RECURSIVE TaskMsgs(_)
TaskMsgs(results) ==
  IF results = <<>> THEN <<>>
  ELSE (IF Head(results).ok THEN <<>>
        ELSE <<TaskMsg(Head(results).id, Head(results).tag)>>)
       \o TaskMsgs(Tail(results))

\* ------------------------------------------------------------------- Init
\* process_places_and_save is entered with the places of some listing and
\* the cache of a fetch in which the packages outside `cache` failed at the
\* CDN GET.
FetchedResults(vec, cache) ==
  [i \in 1..Len(vec) |->
     IF vec[i] \in DOMAIN cache THEN OkResult(vec[i], cache[vec[i]])
     ELSE ErrResult(vec[i], "cdn_get_failed")]

InitProcess ==
  \E place_files \in ShapeSeqs :
    LET places == PlacesFrom(place_files)
        unique == UniquePackages(places)
        vec == Ascending(unique)
    IN \E have \in SUBSET unique : \E cache \in [have -> PackageBytes] :
         LET results == FetchedResults(vec, cache)
         IN /\ pc = "process"
            /\ places_data = places
            /\ failed = TaskMsgs(results) \o CollectMsgs(results)
            /\ packages_vec = vec
            /\ ftask = [i \in 1..Len(vec) |-> "done"]
            /\ package_results = results
            /\ package_bytes_map = CollectMap(results)
            /\ meta_lookups = [id \in unique |-> 1]
            /\ cdn_fetches = [id \in unique |-> 1]
            /\ cdn_content = [id \in unique |->
                                IF id \in have THEN cache[id] ELSE "tree"]
            /\ place_idx = 1
            /\ work_idx = 1
            /\ replacements = 0
            /\ next_ref = BaseOf(place_files, Len(place_files) + 1) + 1
            /\ saved_places = <<>>
            /\ files = <<>>
            /\ ptask = <<>>
            /\ publish_results = <<>>
            /\ uploads = <<>>
            /\ summary = <<>>
            /\ listing = [k \in 1..Len(place_files) |-> OkEntry(place_files[k])]
            /\ collect_idx = Len(place_files) + 1
            /\ more_places = <<>>
            /\ handled = <<>>
            /\ early_failures = <<>>
            /\ publish_confirm = <<>>
            /\ remaining = <<>>
            /\ failures = <<>>
            /\ senders = 2

SpecProcess == InitProcess /\ [][NextProcess]_vars


\* ------------------------------------------------------ buffer_unordered
\* A task is "queued" until the stream hands it out, then in flight until it
\* resolves; its last phase says how it resolved.
FetchInFlight == {"meta", "cdn"}

FetchFailures ==
  {"meta_failed", "parse_meta_failed", "cdn_not_found", "cdn_get_failed",
   "decompress_failed"}

PublishInFlight == {"sent"}

PublishFailures == {"http_status", "send_failed"}

InFlight(tasks, flying) == Cardinality({i \in 1..Len(tasks) : tasks[i] \in flying})

Queued(tasks) == {i \in 1..Len(tasks) : tasks[i] = "queued"}

Failing(tasks, failing) == Cardinality({i \in 1..Len(tasks) : tasks[i] \in failing})

\* buffer_unordered with no bound on the futures in flight
CanStart_Unbounded(tasks, flying, i) ==
  /\ Queued(tasks) # {}
  /\ i = CHOOSE j \in Queued(tasks) : \A k \in Queued(tasks) : j <= k

\* buffer_unordered(3) takes the next item of the stream while fewer than 3
\* futures are in flight ...
CanStart(tasks, flying, i) ==
  /\ InFlight(tasks, flying) < PoolWidth
  /\ Queued(tasks) # {}
  /\ i = CHOOSE j \in Queued(tasks) : \A k \in Queued(tasks) : j <= k

\* ... and polls the futures in flight only once it can take no more.
CanPoll(tasks, flying, i) ==
  /\ i \in 1..Len(tasks)
  /\ tasks[i] \in flying
  /\ (InFlight(tasks, flying) >= PoolWidth \/ Queued(tasks) = {})

\* collect() that stops at the first Err
CanReturn_FailFast(tasks, flying) ==
  \/ \A i \in 1..Len(tasks) : tasks[i] # "queued" /\ tasks[i] \notin flying
  \/ \E i \in 1..Len(tasks) : tasks[i] # "queued" /\ tasks[i] \notin flying /\ tasks[i] # "ok"

\* collect() ends when the stream is exhausted and no future is in flight
CanReturn(tasks, flying) ==
  \A i \in 1..Len(tasks) : tasks[i] # "queued" /\ tasks[i] \notin flying

\* ------------------------------------------------------------------- main
\* the Vec built from every to_work without the HashSet
PackagesVec_NoDedup(places, descending) ==
  LET ids(k) == [i \in 1..Len(places[k].to_work) |-> places[k].to_work[i].package_id_numbers]
      F[k \in 0..Len(places)] == IF k = 0 THEN <<>> ELSE F[k - 1] \o ids(k)
  IN F[Len(places)]

\* unique_packages.into_iter().collect(): the HashSet is iterated in an
\* unspecified order, here ascending or descending.
PackagesVec(places, descending) ==
  LET up == Ascending(UniquePackages(places))
  IN IF descending THEN [i \in 1..Len(up) |-> up[Len(up) + 1 - i]] ELSE up

Bump(counter, id) ==
  [x \in DOMAIN counter \cup {id} |->
     IF x = id THEN (IF x \in DOMAIN counter THEN counter[x] ELSE 0) + 1
     ELSE counter[x]]

\* Build unique package set, then call fetch_package_assets.
BuildUnique ==
  /\ pc = "dedup"
  /\ \E descending \in BOOLEAN :
       /\ packages_vec' = PackagesVec(places_data, descending)
       /\ ftask' = [i \in 1..Len(PackagesVec(places_data, descending)) |-> "queued"]
  /\ pc' = "fetch"
  /\ UNCHANGED <<places_data, failed, package_results, package_bytes_map,
                 meta_lookups, cdn_fetches, cdn_content>>
  /\ UNCHANGED <<processVars, publishVars>>
  /\ UNCHANGED mainVars
  /\ senders' = senders + 1

\* --------------------------------------------------- fetch_package_assets
\* The future of task i is created and polled up to its metadata request.
FetchStart(i) ==
  /\ pc = "fetch"
  /\ CanStart(ftask, FetchInFlight, i)
  /\ ftask' = [ftask EXCEPT ![i] = "meta"]
  /\ meta_lookups' = Bump(meta_lookups, packages_vec[i])
  /\ UNCHANGED <<pc, places_data, failed, packages_vec, package_results,
                 package_bytes_map, cdn_fetches, cdn_content>>
  /\ UNCHANGED <<processVars, publishVars>>
  /\ UNCHANGED mainVars
  /\ senders' = senders + 1

\* The task sends its record and returns Err((id, tag)).
FetchFail(i, tag) ==
  /\ Failing(ftask, FetchFailures) < MaxFailing
  /\ ftask' = [ftask EXCEPT ![i] = tag]
  /\ failed' = Append(failed, TaskMsg(packages_vec[i], tag))
  /\ package_results' = Append(package_results, ErrResult(packages_vec[i], tag))
  /\ UNCHANGED <<pc, places_data, packages_vec, package_bytes_map, meta_lookups,
                 cdn_fetches, cdn_content>>
  /\ UNCHANGED <<processVars, publishVars>>
  /\ UNCHANGED mainVars
  /\ senders' = senders - 1

\* The metadata request, its parse or the search for the "source" location
\* fails.
FetchMetaFails(i) ==
  /\ pc = "fetch"
  /\ CanPoll(ftask, FetchInFlight, i)
  /\ ftask[i] = "meta"
  /\ \E tag \in {"meta_failed", "parse_meta_failed", "cdn_not_found"} : FetchFail(i, tag)

\* The metadata names a "source" location: the task sends the CDN GET.
FetchMetaOk(i) ==
  /\ pc = "fetch"
  /\ CanPoll(ftask, FetchInFlight, i)
  /\ ftask[i] = "meta"
  /\ ftask' = [ftask EXCEPT ![i] = "cdn"]
  /\ cdn_fetches' = Bump(cdn_fetches, packages_vec[i])
  /\ UNCHANGED <<pc, places_data, failed, packages_vec, package_results,
                 package_bytes_map, meta_lookups, cdn_content>>
  /\ UNCHANGED <<processVars, publishVars>>
  /\ UNCHANGED mainVars
  /\ UNCHANGED senders

\* The CDN GET or decompress_if_needed fails.
FetchCdnFails(i) ==
  /\ pc = "fetch"
  /\ CanPoll(ftask, FetchInFlight, i)
  /\ ftask[i] = "cdn"
  /\ \E tag \in {"cdn_get_failed", "decompress_failed"} : FetchFail(i, tag)

\* Ok((package_id_numbers, package_bytes))
FetchCdnOk(i) ==
  /\ pc = "fetch"
  /\ CanPoll(ftask, FetchInFlight, i)
  /\ ftask[i] = "cdn"
  /\ ftask' = [ftask EXCEPT ![i] = "ok"]
  /\ package_results' =
       Append(package_results, OkResult(packages_vec[i], cdn_content[packages_vec[i]]))
  /\ UNCHANGED <<pc, places_data, failed, packages_vec, package_bytes_map,
                 meta_lookups, cdn_fetches, cdn_content>>
  /\ UNCHANGED <<processVars, publishVars>>
  /\ UNCHANGED mainVars
  /\ senders' = senders - 1

\* the return that does not wait for collect(): tasks may be unresolved
FetchReturn_Early ==
  /\ pc = "fetch"
  /\ package_bytes_map' = CollectMap(package_results)
  /\ failed' = failed \o CollectMsgs(package_results)
  /\ pc' = "process"
  /\ UNCHANGED <<places_data, packages_vec, ftask, package_results, meta_lookups,
                 cdn_fetches, cdn_content>>
  /\ UNCHANGED <<processVars, publishVars>>
  /\ UNCHANGED mainVars
  /\ senders' = senders - 1 + 1

\* collect() is done: the loop over package_results, then the map is
\* returned to main, which calls process_places_and_save.
FetchReturn ==
  /\ pc = "fetch"
  /\ CanReturn(ftask, FetchInFlight)
  /\ package_bytes_map' = CollectMap(package_results)
  /\ failed' = failed \o CollectMsgs(package_results)
  /\ pc' = "process"
  /\ UNCHANGED <<places_data, packages_vec, ftask, package_results, meta_lookups,
                 cdn_fetches, cdn_content>>
  /\ UNCHANGED <<processVars, publishVars>>
  /\ UNCHANGED mainVars
  /\ senders' = senders - 1 + 1

NextFetch ==
  \/ BuildUnique
  \/ \E i \in 1..Len(ftask) : FetchStart(i)
  \/ \E i \in 1..Len(ftask) : FetchMetaFails(i)
  \/ \E i \in 1..Len(ftask) : FetchMetaOk(i)
  \/ \E i \in 1..Len(ftask) : FetchCdnFails(i)
  \/ \E i \in 1..Len(ftask) : FetchCdnOk(i)
  \/ FetchReturn

\* ---------------------------------------------------- publish_saved_places
\* The future of task i is created and polled up to its POST.
PublishStart(i) ==
  /\ pc = "publish"
  /\ CanStart(ptask, PublishInFlight, i)
  /\ ptask' = [ptask EXCEPT ![i] = "sent"]
  /\ uploads' = Bump(uploads, saved_places[i].id)
  /\ UNCHANGED <<pc, places_data, failed, publish_results, summary>>
  /\ UNCHANGED <<fetchVars, processVars>>
  /\ UNCHANGED mainVars
  /\ senders' = senders + 1

\* r.status().is_success(): Ok(saved.id)
PublishOk(i) ==
  /\ pc = "publish"
  /\ CanPoll(ptask, PublishInFlight, i)
  /\ ptask' = [ptask EXCEPT ![i] = "ok"]
  /\ publish_results' = Append(publish_results, [ok |-> TRUE, id |-> saved_places[i].id])
  /\ UNCHANGED <<pc, places_data, failed, uploads, summary>>
  /\ UNCHANGED <<fetchVars, processVars>>
  /\ UNCHANGED mainVars
  /\ senders' = senders - 1

\* the failing publish that returns Err(saved.id) without sending a record
PublishFails_NoRecord(i) ==
  /\ pc = "publish"
  /\ CanPoll(ptask, PublishInFlight, i)
  /\ Failing(ptask, PublishFailures) < MaxFailing
  /\ \E tag \in PublishFailures : ptask' = [ptask EXCEPT ![i] = tag]
  /\ publish_results' = Append(publish_results, [ok |-> FALSE, id |-> saved_places[i].id])
  /\ UNCHANGED <<pc, places_data, failed, uploads, summary>>
  /\ UNCHANGED <<fetchVars, processVars>>
  /\ UNCHANGED mainVars
  /\ senders' = senders - 1

\* A response that is not 2xx, or send() is Err: one record, Err(saved.id)
PublishFails(i) ==
  /\ pc = "publish"
  /\ CanPoll(ptask, PublishInFlight, i)
  /\ Failing(ptask, PublishFailures) < MaxFailing
  /\ \E tag \in PublishFailures :
       /\ ptask' = [ptask EXCEPT ![i] = tag]
       /\ failed' = Append(failed, Msg(tag, NoneRef, saved_places[i].id))
  /\ publish_results' = Append(publish_results, [ok |-> FALSE, id |-> saved_places[i].id])
  /\ UNCHANGED <<pc, places_data, uploads, summary>>
  /\ UNCHANGED <<fetchVars, processVars>>
  /\ UNCHANGED mainVars
  /\ senders' = senders - 1

\* the return that leaves a clone of failed_tx alive
PublishReturn_KeepsSender ==
  /\ pc = "publish"
  /\ CanReturn(ptask, PublishInFlight)
  /\ LET total == Len(publish_results)
         succeeded == Cardinality({i \in 1..total : publish_results[i].ok})
     IN summary' = <<[succeeded |-> succeeded, failed |-> total - succeeded,
                      total |-> total]>>
  /\ pc' = "drain_final"
  /\ UNCHANGED <<places_data, failed, ptask, publish_results, uploads>>
  /\ UNCHANGED <<fetchVars, processVars>>
  /\ UNCHANGED mainVars
  /\ UNCHANGED senders

\* collect() is done: the summary line is printed.
PublishReturn ==
  /\ pc = "publish"
  /\ CanReturn(ptask, PublishInFlight)
  /\ LET total == Len(publish_results)
         succeeded == Cardinality({i \in 1..total : publish_results[i].ok})
     IN summary' = <<[succeeded |-> succeeded, failed |-> total - succeeded,
                      total |-> total]>>
  /\ pc' = "drain_final"
  /\ UNCHANGED <<places_data, failed, ptask, publish_results, uploads>>
  /\ UNCHANGED <<fetchVars, processVars>>
  /\ UNCHANGED mainVars
  /\ senders' = senders - 1

NextPublish ==
  \/ \E i \in 1..Len(ptask) : PublishStart(i)
  \/ \E i \in 1..Len(ptask) : PublishOk(i)
  \/ \E i \in 1..Len(ptask) : PublishFails(i)
  \/ PublishReturn

\* ------------------------------------------ collect_places_and_package_ids
\* The steps of one place that send a record and `continue`.
PlaceFates ==
  {"place_meta_failed", "place_parse_meta_failed", "place_cdn_not_found",
   "place_cdn_get_failed", "place_decompress_failed", "place_parse_failed"}

\* the iteration that sends nothing for a place that fails
CollectOne_Silent(entry, id, next) ==
  IF entry.fate # "ok"
  THEN [places |-> <<>>, msgs |-> <<>>, next |-> next]
  ELSE LET dom == BuildDom(entry.file, next - 1)
           scan == Scan(dom, id)
       IN [places |-> <<[id |-> id, dom |-> dom, to_work |-> scan.work]>>,
           msgs |-> scan.msgs, next |-> next + Len(entry.file)]

\* The body of `for place in response.data()`: what it pushes on
\* places_data, what it sends on failed_tx, and the referent counter.
CollectOne(entry, id, next) ==
  IF entry.fate # "ok"
  THEN [places |-> <<>>, msgs |-> <<Msg(entry.fate, NoneRef, id)>>, next |-> next]
  ELSE LET dom == BuildDom(entry.file, next - 1)
           scan == Scan(dom, id)
       IN [places |-> <<[id |-> id, dom |-> dom, to_work |-> scan.work]>>,
           msgs |-> scan.msgs, next |-> next + Len(entry.file)]

\* universe_id.trim().parse() is Ok
ParseUniverseId ==
  /\ pc = "start"
  /\ pc' = "listing"
  /\ UNCHANGED <<places_data, failed, fetchVars, processVars, publishVars, mainVars>>
  /\ senders' = 2

\* universe_id.trim().parse() is Err: `?` returns it from main.
ParseFails ==
  /\ pc = "start"
  /\ pc' = "err_parse"
  /\ UNCHANGED <<places_data, failed, fetchVars, processVars, publishVars, mainVars>>
  /\ UNCHANGED senders

\* The listing request and its JSON body are Ok.
ListingOk ==
  /\ pc = "listing"
  /\ pc' = "collect"
  /\ UNCHANGED <<places_data, failed, fetchVars, processVars, publishVars, mainVars>>
  /\ UNCHANGED senders

\* send() or json() of the listing request is Err: `?` returns it.
ListingFails ==
  /\ pc = "listing"
  /\ pc' = "err_listing"
  /\ UNCHANGED <<places_data, failed, fetchVars, processVars, publishVars, mainVars>>
  /\ senders' = 0

\* One iteration of `for place in response.data().iter().cloned()`.
CollectPlace ==
  /\ pc = "collect"
  /\ collect_idx <= Len(listing)
  /\ LET c == CollectOne(listing[collect_idx], collect_idx, next_ref)
     IN /\ places_data' = places_data \o c.places
        /\ failed' = failed \o c.msgs
        /\ next_ref' = c.next
  /\ collect_idx' = collect_idx + 1
  /\ UNCHANGED <<pc, place_idx, work_idx, replacements, saved_places, files, handled>>
  /\ UNCHANGED <<listing, more_places, early_failures, publish_confirm, remaining, failures>>
  /\ UNCHANGED <<fetchVars, publishVars>>
  /\ UNCHANGED senders

\* Ok(places_data)
CollectReturn ==
  /\ pc = "collect"
  /\ collect_idx > Len(listing)
  /\ pc' = "dedup"
  /\ UNCHANGED <<places_data, failed, fetchVars, processVars, publishVars, mainVars>>
  /\ senders' = senders - 1

NextCollect ==
  \/ ParseUniverseId
  \/ ParseFails
  \/ ListingOk
  \/ ListingFails
  \/ CollectPlace
  \/ CollectReturn

\* ------------------------------------------------------------- main, end
\* while let Ok(msg) = failed_rx.try_recv(): every record sent so far is
\* taken from the channel and printed under "Failures / warnings
\* encountered during scanning/fetching/replacement".
DrainEarly ==
  /\ pc = "drain_early"
  /\ early_failures' = failed
  /\ failed' = <<>>
  /\ pc' = "prompt"
  /\ UNCHANGED <<places_data, fetchVars, processVars, publishVars>>
  /\ UNCHANGED <<listing, more_places, collect_idx, publish_confirm, remaining, failures>>
  /\ UNCHANGED senders

\* What the operator may type at ":: Publish all saved places now?".
Answers == {"yes", "YES", "no", ""}

\* str::to_lowercase on the answers
ToLowercase(answer) == IF answer = "YES" THEN "yes" ELSE answer

\* the prompt that publishes on every answer but "no"
Prompt_UnlessNo ==
  /\ pc = "prompt"
  /\ \E answer \in Answers :
       LET yes == ToLowercase(answer) # "no"
       IN /\ publish_confirm' = <<[answer |-> answer, yes |-> yes]>>
          /\ IF yes
             THEN /\ pc' = "publish"
                  /\ ptask' = [i \in 1..Len(saved_places) |-> "queued"]
                  /\ senders' = senders + 1
             ELSE /\ pc' = "declined"
                  /\ ptask' = ptask
                  /\ senders' = senders
  /\ UNCHANGED <<places_data, failed, fetchVars, processVars>>
  /\ UNCHANGED <<publish_results, uploads, summary>>
  /\ UNCHANGED <<listing, more_places, collect_idx, early_failures, remaining, failures>>

\* rl.readline(..)?.to_lowercase() == "yes": publish_saved_places is called
\* with saved_places, or the run goes to the declined branch.
Prompt ==
  /\ pc = "prompt"
  /\ \E answer \in Answers :
       LET yes == ToLowercase(answer) = "yes"
       IN /\ publish_confirm' = <<[answer |-> answer, yes |-> yes]>>
          /\ IF yes
             THEN /\ pc' = "publish"
                  /\ ptask' = [i \in 1..Len(saved_places) |-> "queued"]
                  /\ senders' = senders + 1
             ELSE /\ pc' = "declined"
                  /\ ptask' = ptask
                  /\ senders' = senders
  /\ UNCHANGED <<places_data, failed, fetchVars, processVars>>
  /\ UNCHANGED <<publish_results, uploads, summary>>
  /\ UNCHANGED <<listing, more_places, collect_idx, early_failures, remaining, failures>>

\* rl.readline(..) is Err: `?` returns it from main.
PromptFails ==
  /\ pc = "prompt"
  /\ pc' = "err_prompt"
  /\ UNCHANGED <<places_data, failed, fetchVars, processVars, publishVars, mainVars>>
  /\ senders' = 0

\* Publishing skipped: drop(failed_tx), then recv() until the channel is
\* closed; the records are printed under "Additional failures captured".
DrainDeclined ==
  /\ pc = "declined"
  /\ senders = 1
  /\ senders' = 0
  /\ remaining' = failed
  /\ failed' = <<>>
  /\ pc' = "done"
  /\ UNCHANGED <<places_data, fetchVars, processVars, publishVars>>
  /\ UNCHANGED <<listing, more_places, collect_idx, early_failures, publish_confirm, failures>>

\* After publishing: drop(failed_tx), then recv() until the channel is
\* closed; the records are printed under "Failures / warnings encountered
\* during operation", or "All operations completed successfully." if none.
DrainFinal ==
  /\ pc = "drain_final"
  /\ senders = 1
  /\ senders' = 0
  /\ failures' = failed
  /\ failed' = <<>>
  /\ pc' = "done"
  /\ UNCHANGED <<places_data, fetchVars, processVars, publishVars>>
  /\ UNCHANGED <<listing, more_places, collect_idx, early_failures, publish_confirm, remaining>>

NextMain ==
  \/ NextCollect
  \/ NextFetch
  \/ NextProcess
  \/ DrainEarly
  \/ Prompt
  \/ PromptFails
  \/ DrainDeclined
  \/ NextPublish
  \/ DrainFinal

\* ------------------------------------------ Init of the fan-out stages
\* What the CDN serves for package id.
Served(id) == <<"tree", "bad", "empty", "forest">>[((id - 1) % 4) + 1]

\* main is about to build the unique package set: the listing held two
\* places, each with the same n packages.
InitFetch ==
  \E n \in 0..MaxTasks :
    LET place_files == <<FlatFile(n), FlatFile(n)>>
    IN /\ pc = "dedup"
       /\ places_data = PlacesFrom(place_files)
       /\ failed = <<>>
       /\ packages_vec = <<>>
       /\ ftask = <<>>
       /\ package_results = <<>>
       /\ package_bytes_map = <<>>
       /\ meta_lookups = <<>>
       /\ cdn_fetches = <<>>
       /\ cdn_content = [id \in 1..n |-> Served(id)]
       /\ place_idx = 1
       /\ work_idx = 1
       /\ replacements = 0
       /\ next_ref = BaseOf(place_files, Len(place_files) + 1) + 1
       /\ saved_places = <<>>
       /\ files = <<>>
       /\ ptask = <<>>
       /\ publish_results = <<>>
       /\ uploads = <<>>
       /\ summary = <<>>
       /\ listing = [k \in 1..Len(place_files) |-> OkEntry(place_files[k])]
       /\ collect_idx = Len(place_files) + 1
       /\ more_places = <<>>
       /\ handled = <<>>
       /\ early_failures = <<>>
       /\ publish_confirm = <<>>
       /\ remaining = <<>>
       /\ failures = <<>>
       /\ senders = 1

\* main is about to publish the n places of a listing none of which held a
\* PackageLink: all are saved, no record was sent.
InitPublish ==
  \E n \in 0..MaxTasks :
    LET place_files == [k \in 1..n |-> FlatFile(0)]
        places == PlacesFrom(place_files)
    IN /\ pc = "publish"
       /\ places_data = places
       /\ failed = <<>>
       /\ packages_vec = <<>>
       /\ ftask = <<>>
       /\ package_results = <<>>
       /\ package_bytes_map = <<>>
       /\ meta_lookups = <<>>
       /\ cdn_fetches = <<>>
       /\ cdn_content = <<>>
       /\ place_idx = n + 1
       /\ work_idx = 1
       /\ replacements = 0
       /\ next_ref = BaseOf(place_files, n + 1) + 1
       /\ saved_places = [k \in 1..n |-> [id |-> k, buffer |-> Encode(places[k].dom)]]
       /\ files = [k \in 1..n |-> Encode(places[k].dom)]
       /\ ptask = [k \in 1..n |-> "queued"]
       /\ publish_results = <<>>
       /\ uploads = <<>>
       /\ summary = <<>>
       /\ listing = [k \in 1..Len(place_files) |-> OkEntry(place_files[k])]
       /\ collect_idx = Len(place_files) + 1
       /\ more_places = <<>>
       /\ handled = <<>>
       /\ early_failures = <<>>
       /\ publish_confirm = <<[answer |-> "yes", yes |-> TRUE]>>
       /\ remaining = <<>>
       /\ failures = <<>>
       /\ senders = 2

SpecFetch == InitFetch /\ [][NextFetch]_vars

\* Every request ends within the client's timeout and bounded retries, and
\* the executor keeps polling: a step that stays possible is taken.
FairFetch == SpecFetch /\ WF_vars(NextFetch)

SpecFanOut == (InitFetch \/ InitPublish) /\ [][NextFetch \/ NextPublish]_vars

\* ------------------------------------------------------------ Init of main
\* The place files the CDN may serve for a place of the listing.
CollectFiles == {PlaceFile("simple"), PlaceFile("mixed"), FlatFile(0)}

ListingEntries ==
  {FailEntry(fate) : fate \in PlaceFates} \cup {OkEntry(file) : file \in CollectFiles}

Listings == UNION {[1..n -> ListingEntries] : n \in 0..MaxPlaces}

\* main has read its settings and is about to parse the universe id; the
\* listing endpoint will answer with `places`.
InitWith(places) ==
  /\ pc = "start"
  /\ listing = places
  /\ collect_idx = 1
  /\ places_data = <<>>
  /\ failed = <<>>
  /\ packages_vec = <<>>
  /\ ftask = <<>>
  /\ package_results = <<>>
  /\ package_bytes_map = <<>>
  /\ meta_lookups = <<>>
  /\ cdn_fetches = <<>>
  /\ cdn_content = [id \in 1..2 |-> Served(id)]
  /\ place_idx = 1
  /\ work_idx = 1
  /\ replacements = 0
  /\ next_ref = 1
  /\ saved_places = <<>>
  /\ files = <<>>
  /\ handled = <<>>
  /\ ptask = <<>>
  /\ publish_results = <<>>
  /\ uploads = <<>>
  /\ summary = <<>>
  /\ early_failures = <<>>
  /\ publish_confirm = <<>>
  /\ remaining = <<>>
  /\ failures = <<>>
  /\ senders = 0

\* The places the universe holds beyond the first page of the listing.
LaterPages == {<<>>, <<OkEntry(PlaceFile("simple"))>>}

InitCollect ==
  \E places \in Listings : \E more \in LaterPages :
    InitWith(places) /\ more_places = more

SpecCollect == InitCollect /\ [][NextCollect]_vars

\* The listings of the whole run: a place fails at its first or at its last
\* step, or decodes: to a place with well-formed and malformed PackageLinks,
\* or to one whose PackageLink is a child of the root.
MainEntries ==
  {FailEntry("place_meta_failed"), FailEntry("place_parse_failed")}
  \cup {OkEntry(PlaceFile("mixed")), OkEntry(PlaceFile("rootlink"))}

MainListings == UNION {[1..n -> MainEntries] : n \in 0..MaxPlaces}

InitMain == \E places \in MainListings : InitWith(places) /\ more_places = <<>>

SpecMain == InitMain /\ [][NextMain]_vars

\* ------------------------------------------- the transplanter as a function
\* The loops of process_places_and_save over the to_work of one place and
\* over the places, as the outcome of every ToWork: "replaced", the kind of
\* the record it sent, "panic", or "not_reached" after a panic.
OutcomeOf(h, before) ==
  IF h.panicked THEN "panic"
  ELSE IF h.replacements > before THEN "replaced"
  ELSE h.msgs[1].kind

RECURSIVE RunItems(_, _, _, _, _, _)
RunItems(place, dom, to_work, i, cache, next) ==
  IF i > Len(to_work) THEN [out |-> <<>>, panicked |-> FALSE, next |-> next]
  ELSE LET h == HandleWork(place, dom, 0, to_work[i], cache, next)
       IN IF h.panicked
          THEN [out |-> <<"panic">> \o [j \in 1..(Len(to_work) - i) |-> "not_reached"],
                panicked |-> TRUE, next |-> h.next]
          ELSE LET rest == RunItems(place, h.dom, to_work, i + 1, cache, h.next)
               IN [out |-> <<OutcomeOf(h, 0)>> \o rest.out,
                   panicked |-> rest.panicked, next |-> rest.next]

RECURSIVE RunPlaces(_, _, _, _, _)
RunPlaces(places, k, cache, next, dead) ==
  IF k > Len(places) THEN <<>>
  ELSE IF dead
  THEN <<[j \in 1..Len(places[k].to_work) |-> "not_reached"]>>
       \o RunPlaces(places, k + 1, cache, next, TRUE)
  ELSE LET r == RunItems(places[k].id, places[k].dom, places[k].to_work, 1, cache, next)
       IN <<r.out>> \o RunPlaces(places, k + 1, cache, r.next, r.panicked)

\* ------------------------------------------------------------------ claims
AtProcessStart ==
  pc = "process" /\ place_idx = 1 /\ work_idx = 1 /\ saved_places = <<>>

WorkId == CurrentWork.package_id_numbers

AbsentCase == AtWork /\ WorkId \notin DOMAIN package_bytes_map

DecodeFailCase ==
  AtWork /\ WorkId \in DOMAIN package_bytes_map /\ ~ DecodeOk(package_bytes_map[WorkId])

DecodedCase ==
  AtWork /\ WorkId \in DOMAIN package_bytes_map /\ DecodeOk(package_bytes_map[WorkId])

FreshPackage == BuildDom(PackageFile(package_bytes_map[WorkId]), next_ref)

EmptyCase == DecodedCase /\ ~ HasPackageRoot(FreshPackage)

\* the scene holds group parent -> wrapper -> placeholder for this ToWork
ChainLive ==
  LET d == CurrentPlace.dom
      w == CurrentWork
  IN /\ w.package_link \in Refs(d)
     /\ w.package_link_group \in Refs(d)
     /\ w.package_link_parent \in Refs(d)
     /\ Parent(d, w.package_link) = w.package_link_group
     /\ Parent(d, w.package_link_group) = w.package_link_parent

SpliceCase == DecodedCase /\ HasPackageRoot(FreshPackage) /\ ChainLive

\* C1: a ToWork whose package id is not a key of the byte cache leaves every
\* place DOM as it was, sends exactly one record (naming the package and the
\* place), and the loop goes on to the next ToWork.
C1_AbsentLeavesSceneUntouched ==
  [][AbsentCase =>
       /\ places_data' = places_data
       /\ failed' = Append(failed, Msg("no_asset", WorkId, CurrentPlace.id))
       /\ replacements' = replacements
       /\ pc' = "process" /\ place_idx' = place_idx /\ work_idx' = work_idx + 1]_vars

C1_Witness ==
  /\ pc = "process" /\ place_idx <= Len(places_data) /\ work_idx > 1
  /\ CurrentPlace.to_work[work_idx - 1].package_id_numbers \notin DOMAIN package_bytes_map
  /\ CurrentPlace.to_work[work_idx - 1].package_link \in Refs(CurrentPlace.dom)

\* C2: after a successful transplant the group parent holds the content
\* root, the content root holds its own children and the placeholder, the
\* placeholder keeps its class and PackageId, and the wrapper with what was
\* left under it is gone.
C2_TransplantShape ==
  [][SpliceCase =>
       LET d == CurrentPlace.dom
           d2 == places_data'[place_idx].dom
           link == CurrentWork.package_link
           group == CurrentWork.package_link_group
           parent == CurrentWork.package_link_parent
           package_root == PackageRoot(FreshPackage)
       IN /\ pc' = "process" /\ replacements' = replacements + 1
          /\ package_root \in SeqToSet(Children(d2, parent))
          /\ SeqToSet(Children(FreshPackage, package_root)) # {}
          /\ SeqToSet(Children(FreshPackage, package_root)) \subseteq
               SeqToSet(Children(d2, package_root))
          /\ link \in SeqToSet(Children(d2, package_root))
          /\ Parent(d2, link) = package_root
          /\ Parent(d2, package_root) = parent
          /\ package_root \in SubtreeOf(d2, d2.root)
          /\ d2.inst[link].class = d.inst[link].class
          /\ d2.inst[link].pid = d.inst[link].pid
          /\ group \notin Refs(d2)
          /\ (SubtreeOf(d, group) \ SubtreeOf(d, link)) \cap Refs(d2) = {}
          /\ SubtreeOf(d, link) \subseteq SubtreeOf(d2, package_root)]_vars

C2_Witness ==
  /\ pc = "process" /\ place_idx <= Len(places_data) /\ replacements >= 1
  /\ \E r \in Refs(CurrentPlace.dom) :
       /\ CurrentPlace.dom.inst[r].class = "PackageLink"
       /\ \E k \in SeqToSet(Children(CurrentPlace.dom, Parent(CurrentPlace.dom, r))) :
            CurrentPlace.dom.inst[k].class = "Part" /\ k > r

\* C3 (as claimed): a decoded package whose root has no children sends one
\* record, leaves the place DOM as it was, and the loop goes on.
C3_EmptyRootSkipped ==
  [][EmptyCase =>
       /\ pc' = "process" /\ work_idx' = work_idx + 1
       /\ places_data' = places_data
       /\ Len(failed') = Len(failed) + 1]_vars

\* C4: a package whose cached bytes do not decode sends exactly one record,
\* leaves every place DOM as it was (wrapper and placeholder in place), does
\* not count as a replacement, and the loop goes on.
C4_DecodeFailureSkips ==
  [][DecodeFailCase =>
       /\ places_data' = places_data
       /\ failed' = Append(failed, Msg("package_parse_failed", WorkId, NoneRef))
       /\ replacements' = replacements
       /\ pc' = "process" /\ place_idx' = place_idx /\ work_idx' = work_idx + 1]_vars

C4_Witness ==
  /\ pc = "process" /\ place_idx <= Len(places_data) /\ work_idx > 1
  /\ LET w == CurrentPlace.to_work[work_idx - 1]
     IN /\ w.package_id_numbers \in DOMAIN package_bytes_map
        /\ ~ DecodeOk(package_bytes_map[w.package_id_numbers])
        /\ w.package_link \in Refs(CurrentPlace.dom)
        /\ Parent(CurrentPlace.dom, w.package_link) = w.package_link_group
  /\ failed # <<>> /\ failed[Len(failed)].kind = "package_parse_failed"

\* C5 (as claimed): making the bytes of package X undecodable changes the
\* outcome of no ToWork that names another package, in any place.
C5_DecodeFailureIsolated ==
  AtProcessStart =>
    \A X \in DOMAIN package_bytes_map :
      DecodeOk(package_bytes_map[X]) =>
        LET good == RunPlaces(places_data, 1, package_bytes_map, next_ref, FALSE)
            bad == RunPlaces(places_data, 1, [package_bytes_map EXCEPT ![X] = "bad"],
                             next_ref, FALSE)
        IN \A k \in 1..Len(places_data) : \A i \in 1..Len(places_data[k].to_work) :
             places_data[k].to_work[i].package_id_numbers # X => good[k][i] = bad[k][i]


\* ------------------------------------------------------ fan-out claims
Resolved(phase, flying) == phase # "queued" /\ phase \notin flying

Count(counter, id) == IF id \in DOMAIN counter THEN counter[id] ELSE 0

Occurrences(seq, id) == Cardinality({i \in 1..Len(seq) : seq[i] = id})

ResultsOf(results, id) == Cardinality({j \in 1..Len(results) : results[j].id = id})

\* C6: in the fetch stage and in the publish stage at most PoolWidth tasks
\* are in flight in every state, and when the stage has returned every
\* submitted item has resolved and has exactly one result.
C6_PoolBound ==
  /\ InFlight(ftask, FetchInFlight) <= PoolWidth
  /\ InFlight(ptask, PublishInFlight) <= PoolWidth
  /\ pc = "process" =>
       /\ Len(package_results) = Len(packages_vec)
       /\ \A i \in 1..Len(packages_vec) :
            /\ Resolved(ftask[i], FetchInFlight)
            /\ ResultsOf(package_results, packages_vec[i]) = 1
  /\ pc = "drain_final" =>
       /\ Len(publish_results) = Len(saved_places)
       /\ \A i \in 1..Len(saved_places) :
            /\ Resolved(ptask[i], PublishInFlight)
            /\ ResultsOf(publish_results, saved_places[i].id) = 1

C6_Witness ==
  /\ pc = "fetch"
  /\ InFlight(ftask, FetchInFlight) = PoolWidth
  /\ Len(ftask) > PoolWidth
  /\ package_results # <<>>

\* C7: every submitted fetch task resolves; a task that fails changes the
\* phase of no other task; while a slot is free and work remains the next
\* step starts a task; and the stage returns only with every task resolved.
C7_NoFailFast ==
  /\ (pc = "fetch")
       ~> (pc = "process" /\ \A i \in 1..Len(ftask) : Resolved(ftask[i], FetchInFlight))
  /\ [](pc = "process" =>
          \A i \in 1..Len(ftask) : Resolved(ftask[i], FetchInFlight))
  /\ [][\A i \in 1..Len(ftask) :
          (ftask[i] \notin FetchFailures /\ ftask'[i] \in FetchFailures) =>
            \A j \in 1..Len(ftask) : j # i => ftask'[j] = ftask[j]]_vars
  /\ [][(pc = "fetch" /\ Queued(ftask) # {}
          /\ InFlight(ftask, FetchInFlight) < PoolWidth) =>
          (pc' = "fetch" /\ Cardinality(Queued(ftask')) = Cardinality(Queued(ftask)) - 1)]_vars

C7_Witness ==
  /\ pc = "process"
  /\ Len(ftask) > PoolWidth
  /\ \E j \in 1..Len(package_results) : \E k \in 1..Len(package_results) :
       j < k /\ ~ package_results[j].ok /\ package_results[k].ok

\* C8: every package id some ToWork names is handed to the fetcher exactly
\* once, whatever the number of ToWork and places that name it, and gets
\* exactly one metadata request and at most one CDN request.
C8_Dedup ==
  /\ \A i \in 1..Len(packages_vec) : packages_vec[i] \in UniquePackages(places_data)
  /\ \A id \in UniquePackages(places_data) :
       /\ pc # "dedup" => Occurrences(packages_vec, id) = 1
       /\ Count(meta_lookups, id) <= 1
       /\ Count(cdn_fetches, id) <= 1
       /\ pc = "process" => Count(meta_lookups, id) = 1

C8_Witness ==
  /\ pc = "process"
  /\ Len(places_data) >= 2
  /\ \E id \in UniquePackages(places_data) :
       /\ \A k \in 1..Len(places_data) :
            \E i \in 1..Len(places_data[k].to_work) :
              places_data[k].to_work[i].package_id_numbers = id
       /\ Count(meta_lookups, id) = 1
       /\ Count(cdn_fetches, id) = 1

\* C9: the returned cache holds a package id exactly when its task passed
\* every step, and then maps it to the bytes the CDN served for that id.
C9_CacheIffFetched ==
  pc = "process" =>
    /\ DOMAIN package_bytes_map \subseteq SeqToSet(packages_vec)
    /\ \A i \in 1..Len(packages_vec) :
         LET id == packages_vec[i]
         IN /\ id \in DOMAIN package_bytes_map <=> ftask[i] = "ok"
            /\ ftask[i] \in FetchFailures => id \notin DOMAIN package_bytes_map
            /\ id \in DOMAIN package_bytes_map =>
                 /\ package_bytes_map[id] = cdn_content[id]
                 /\ Count(meta_lookups, id) = 1 /\ Count(cdn_fetches, id) = 1

C9_Witness ==
  /\ pc = "process"
  /\ \E i \in 1..Len(packages_vec) : \E j \in 1..Len(packages_vec) :
       /\ ftask[i] = "ok" /\ packages_vec[i] \in DOMAIN package_bytes_map
       /\ ftask[j] = "decompress_failed" /\ packages_vec[j] \notin DOMAIN package_bytes_map

RecordsNaming(id) == SelectSeq(failed, LAMBDA m : m.package = id)

\* C10 (as claimed): when fetch_package_assets has returned, exactly one
\* record names each package id whose fetch failed.
C10_OneRecordPerFailedId ==
  pc = "process" =>
    \A i \in 1..Len(packages_vec) :
      ftask[i] \in FetchFailures => Len(RecordsNaming(packages_vec[i])) = 1

\* C10 (amended): exactly two records name each package id whose fetch
\* failed, the one its task sent at the failing step and then the one the
\* loop over the results sent; none names a package that was fetched.
C10_TwoRecordsPerFailedId ==
  pc = "process" =>
    \A i \in 1..Len(packages_vec) :
      LET id == packages_vec[i]
      IN /\ ftask[i] \in FetchFailures =>
              RecordsNaming(id) = <<TaskMsg(id, ftask[i]), Msg("fetch_failed", id, NoneRef)>>
         /\ ftask[i] = "ok" => RecordsNaming(id) = <<>>

C10_Witness ==
  /\ pc = "process"
  /\ \E i \in 1..Len(packages_vec) :
       ftask[i] = "cdn_get_failed" /\ Len(RecordsNaming(packages_vec[i])) = 2


\* ------------------------------------------------------- collector claims
RecordsOfPlace(id) == SelectSeq(failed, LAMBDA m : m.place = id)

\* the places of the listing handled so far that decoded, in listing order
DecodedSoFar ==
  SelectSeq([k \in 1..(collect_idx - 1) |-> k], LAMBDA k : listing[k].fate = "ok")

\* C11: a place that fails at one of the six steps sends exactly one record
\* naming it and pushes no PlaceData (so no ToWork); the places after it are
\* still handled; and the returned list holds exactly the places that
\* decoded, in listing order.
C11_CollectorIsolation ==
  pc \in {"collect", "dedup"} =>
    /\ [i \in 1..Len(places_data) |-> places_data[i].id] = DecodedSoFar
    /\ \A k \in 1..(collect_idx - 1) :
         listing[k].fate # "ok" =>
           /\ RecordsOfPlace(k) = <<Msg(listing[k].fate, NoneRef, k)>>
           /\ \A i \in 1..Len(places_data) : places_data[i].id # k
    /\ pc = "dedup" => collect_idx = Len(listing) + 1

C11_Witness ==
  /\ pc = "dedup"
  /\ \E j \in 1..Len(listing) : \E k \in 1..Len(listing) :
       /\ j < k
       /\ listing[j].fate = "place_cdn_get_failed"
       /\ listing[k].fate = "ok"
       /\ Len(RecordsOfPlace(j)) = 1
       /\ Len(places_data) = 1 /\ places_data[1].id = k
       /\ places_data[1].to_work # <<>>

WellFormed(i) ==
  i.class = "PackageLink" /\ i.pid.variant = "ContentId" /\ i.pid.prefix = AssetPrefix

Malformed(i) == i.class = "PackageLink" /\ ~ WellFormed(i)

ScanRecords(id) ==
  SelectSeq(failed, LAMBDA m : m.place = id /\ m.kind \in {"no_package_id", "bad_package_id"})

\* C12: in every scanned place, each PackageLink whose PackageId is missing,
\* is not a ContentId or lacks the prefix gives one record and no ToWork,
\* and each other PackageLink gives exactly one ToWork, whose
\* package_link_group is its parent and whose package_link_parent is the
\* parent of that parent.
C12_MalformedSkippedAlone ==
  pc \in {"collect", "dedup"} =>
    \A p \in 1..Len(places_data) :
      LET d == places_data[p].dom
          w == places_data[p].to_work
          ItemsOf(r) == {i \in 1..Len(w) : w[i].package_link = r}
      IN /\ \A r \in Refs(d) :
              /\ Malformed(d.inst[r]) => ItemsOf(r) = {}
              /\ WellFormed(d.inst[r]) =>
                   /\ Cardinality(ItemsOf(r)) = 1
                   /\ \A i \in ItemsOf(r) :
                        /\ w[i].package_id_numbers = d.inst[r].pid.rest
                        /\ w[i].package_link_group = Parent(d, r)
                        /\ w[i].package_link_parent = Parent(d, Parent(d, r))
         /\ Len(ScanRecords(places_data[p].id)) =
              Cardinality({r \in Refs(d) : Malformed(d.inst[r])})
         /\ Len(w) = Cardinality({r \in Refs(d) : WellFormed(d.inst[r])})

C12_Witness ==
  /\ pc = "dedup"
  /\ \E p \in 1..Len(places_data) :
       /\ Len(places_data[p].to_work) = 2
       /\ Len(ScanRecords(places_data[p].id)) = 3
       /\ \E r \in Refs(places_data[p].dom) :
            /\ places_data[p].dom.inst[r].class = "PackageLink"
            /\ places_data[p].dom.inst[r].pid.variant = "ContentId"
            /\ places_data[p].dom.inst[r].pid.prefix # AssetPrefix


\* ---------------------------------------------------------- run claims
\* C13: an upload request for a place is issued only once its file is
\* written, with the bytes of that file; a file once written is never
\* removed or changed; and a publish that fails changes neither the files
\* nor the phase or result of any other place's publish.
C13_PersistBeforePublish ==
  /\ [](\A id \in DOMAIN uploads :
          /\ id \in DOMAIN files
          /\ \E i \in 1..Len(saved_places) :
               saved_places[i].id = id /\ saved_places[i].buffer = files[id])
  /\ [][\A id \in DOMAIN files : id \in DOMAIN files' /\ files'[id] = files[id]]_vars
  /\ [][\A i \in 1..Len(ptask) :
          (ptask[i] \notin PublishFailures /\ ptask'[i] \in PublishFailures) =>
            /\ files' = files
            /\ \A j \in 1..Len(ptask) : j # i => ptask'[j] = ptask[j]
            /\ \A r \in 1..Len(publish_results) : publish_results'[r] = publish_results[r]]_vars

C13_Witness ==
  /\ pc = "done"
  /\ \E i \in 1..Len(ptask) : \E j \in 1..Len(ptask) :
       /\ ptask[i] = "http_status" /\ ptask[j] = "ok"
       /\ saved_places[i].id \in DOMAIN files
       /\ files[saved_places[i].id] = saved_places[i].buffer
       /\ Count(uploads, saved_places[i].id) = 1
       /\ \E r \in 1..Len(publish_results) : \E q \in 1..Len(publish_results) :
            /\ r < q
            /\ publish_results[r].id = saved_places[i].id
            /\ publish_results[q].id = saved_places[j].id


PublishRecords(id) ==
  SelectSeq(failed, LAMBDA m : m.place = id /\ m.kind \in PublishFailures)

\* C14: every upload that has resolved is either "ok" or one of the two
\* failures and has exactly one result; a failed upload has sent exactly one
\* record (with the status or the error), a successful or unresolved one
\* none; and the summary printed at the end counts succeeded + failed =
\* total = the number of places submitted.
C14_PublishOutcomes ==
  /\ pc \in {"publish", "drain_final"} =>
       \A i \in 1..Len(ptask) :
         LET id == saved_places[i].id
         IN /\ ptask[i] \in {"queued", "sent", "ok"} \cup PublishFailures
            /\ ptask[i] \in PublishFailures =>
                 /\ PublishRecords(id) = <<Msg(ptask[i], NoneRef, id)>>
                 /\ ResultsOf(publish_results, id) = 1
                 /\ \A r \in 1..Len(publish_results) :
                      publish_results[r].id = id => ~ publish_results[r].ok
            /\ ptask[i] = "ok" =>
                 /\ PublishRecords(id) = <<>>
                 /\ ResultsOf(publish_results, id) = 1
                 /\ \A r \in 1..Len(publish_results) :
                      publish_results[r].id = id => publish_results[r].ok
            /\ ptask[i] \in {"queued", "sent"} =>
                 PublishRecords(id) = <<>> /\ ResultsOf(publish_results, id) = 0
  /\ pc = "drain_final" =>
       /\ \A i \in 1..Len(ptask) : ptask[i] \in {"ok"} \cup PublishFailures
       /\ Len(summary) = 1
       /\ summary[1].succeeded + summary[1].failed = summary[1].total
       /\ summary[1].total = Len(saved_places)
       /\ summary[1].succeeded = Cardinality({i \in 1..Len(ptask) : ptask[i] = "ok"})
       /\ summary[1].failed = Cardinality({i \in 1..Len(ptask) : ptask[i] \in PublishFailures})
       /\ summary[1].failed =
            Len(SelectSeq(failed, LAMBDA m : m.kind \in PublishFailures))

C14_Witness ==
  /\ pc = "drain_final"
  /\ Len(saved_places) > PoolWidth
  /\ summary[1].failed >= 1
  /\ summary[1].succeeded >= 2
  /\ \E i \in 1..Len(ptask) : ptask[i] = "send_failed"


\* C15 (as claimed): no per-item failure aborts the run; in particular the
\* run never stops at a ToWork whose package decoded to a DOM with an empty
\* root (a structural failure).
C15_NoPerItemAbort ==
  pc = "panicked" =>
    ~ /\ WorkId \in DOMAIN package_bytes_map
      /\ DecodeOk(package_bytes_map[WorkId])
      /\ ~ HasPackageRoot(BuildDom(PackageFile(package_bytes_map[WorkId]), 0))

\* no place requested, no package requested, no ToWork handled, no file
NothingBegun ==
  /\ collect_idx = 1 /\ places_data = <<>> /\ failed = <<>>
  /\ packages_vec = <<>> /\ meta_lookups = <<>> /\ cdn_fetches = <<>>
  /\ package_bytes_map = <<>>
  /\ place_idx = 1 /\ handled = <<>> /\ saved_places = <<>> /\ files = <<>>
  /\ uploads = <<>>

\* C16 (as claimed): when main returns the Err of the universe id parse, of
\* the listing request or of the local save, no place and no package has
\* been requested, no ToWork handled and no file written.
C16_FatalBeforeAnyItem ==
  pc \in {"err_parse", "err_listing", "err_write"} => NothingBegun

\* C16 (amended): the Err of the universe id parse and of the listing
\* request leave nothing begun.  The Err of the local save of a place comes
\* when every place has been collected, every package task has resolved
\* and every ToWork of that place has been handled; the places before it
\* are saved with their files written, no later place has a file, nothing
\* is uploaded and no list of records is printed.
C16_FatalErrorsWhere ==
  /\ pc \in {"err_parse", "err_listing"} => NothingBegun
  /\ pc = "err_write" =>
       /\ collect_idx = Len(listing) + 1
       /\ Len(package_results) = Len(packages_vec)
       /\ \A i \in 1..Len(ftask) : Resolved(ftask[i], FetchInFlight)
       /\ place_idx <= Len(places_data)
       /\ Len(handled) = Len(CurrentPlace.to_work)
       /\ Len(saved_places) = place_idx - 1
       /\ \A k \in 1..(place_idx - 1) :
            /\ saved_places[k].id = places_data[k].id
            /\ places_data[k].id \in DOMAIN files
            /\ files[places_data[k].id] = saved_places[k].buffer
       /\ \A k \in (place_idx + 1)..Len(places_data) :
            places_data[k].id \notin DOMAIN files
       /\ uploads = <<>> /\ publish_results = <<>>
       /\ early_failures = <<>> /\ remaining = <<>> /\ failures = <<>>

C16_Witness ==
  /\ pc = "err_write"
  /\ place_idx = 2
  /\ Len(saved_places) = 1 /\ DOMAIN files = {places_data[1].id}
  /\ replacements >= 1
  /\ failed # <<>>


\* the list printed last: `failures` after publishing, `remaining` after
\* publishing was declined
FinalList == IF publish_confirm[1].yes THEN failures ELSE remaining

\* C17 (as claimed): when the run ends, the list printed last holds every
\* record sent during the run, those printed before the prompt included;
\* and at the prompt every record sent so far has been printed.
C17_FinalListHoldsAll ==
  /\ pc = "prompt" => failed = <<>>
  /\ pc = "done" =>
       \A i \in 1..Len(early_failures) :
         \E j \in 1..Len(FinalList) : FinalList[j] = early_failures[i]

\* the ToWork is untouched: wrapper and placeholder in place
Untouched(d, w) ==
  /\ w.package_link \in Refs(d)
  /\ w.package_link_group \in Refs(d)
  /\ Parent(d, w.package_link) = w.package_link_group
  /\ w.package_link \in SeqToSet(Children(d, w.package_link_group))

\* the ToWork is replaced: the wrapper is gone and the placeholder is under
\* a content root (an instance that was not in the place as decoded) which
\* is under the group parent
Replaced(d, w, decoded) ==
  /\ w.package_link_group \notin Refs(d)
  /\ w.package_link \in Refs(d)
  /\ w.package_link_parent \in Refs(d)
  /\ Parent(d, w.package_link) \in Refs(d) \ decoded
  /\ Parent(d, Parent(d, w.package_link)) = w.package_link_parent
  /\ Parent(d, w.package_link) \in SeqToSet(Children(d, w.package_link_parent))

\* the referents the place had when it was decoded
DecodedRefs(k) ==
  {BaseOf([j \in 1..Len(listing) |-> listing[j].file], k) + i :
     i \in 1..Len(listing[k].file)}

\* C18 (as claimed): in every place that is serialized and saved, each
\* ToWork is either untouched or replaced; none has wrapper and content
\* root together and none has lost its placeholder.
C18_PersistedAtomic ==
  [][(AtSave /\ saved_places' # saved_places) =>
       \A i \in 1..Len(CurrentPlace.to_work) :
         LET d == CurrentPlace.dom
             w == CurrentPlace.to_work[i]
         IN \/ Untouched(d, w) /\ handled[i].replaced = 0
            \/ Replaced(d, w, DecodedRefs(place_idx)) /\ handled[i].replaced = 1]_vars


\* the inserts of key id into package_bytes_map: one per Ok result
Inserts(results, id) ==
  Cardinality({j \in 1..Len(results) : results[j].ok /\ results[j].id = id})

BeforeFetchReturn == {"start", "listing", "collect", "dedup", "fetch"}

\* C19: every key of the byte cache is inserted at most once; the cache is
\* empty until fetch_package_assets returns and never changes afterwards,
\* so every write precedes the first read of the transplanter; and when
\* process_places_and_save begins every fetch task has resolved and no
\* request is issued any more.
C19_CacheStageSequencing ==
  /\ [](\A i \in 1..Len(packages_vec) : Inserts(package_results, packages_vec[i]) <= 1)
  /\ [](pc \in BeforeFetchReturn =>
          /\ package_bytes_map = <<>>
          /\ handled = <<>> /\ place_idx = 1 /\ saved_places = <<>>)
  /\ [](pc \notin BeforeFetchReturn =>
          /\ Len(package_results) = Len(packages_vec)
          /\ \A i \in 1..Len(ftask) : Resolved(ftask[i], FetchInFlight)
          /\ \A id \in DOMAIN package_bytes_map : Inserts(package_results, id) = 1)
  /\ [][pc # "fetch" => package_bytes_map' = package_bytes_map]_vars
  /\ [][pc \notin BeforeFetchReturn =>
          /\ ftask' = ftask /\ package_results' = package_results
          /\ meta_lookups' = meta_lookups /\ cdn_fetches' = cdn_fetches]_vars

C19_Witness ==
  /\ pc = "process"
  /\ handled # <<>> /\ handled[1].replaced = 1
  /\ DOMAIN package_bytes_map = {1}
  /\ \E i \in 1..Len(ftask) : ftask[i] = "cdn_not_found"

SumReplaced == Cardinality({i \in 1..Len(handled) : handled[i].replaced = 1})

SumSent == Cardinality({i \in 1..Len(handled) : handled[i].sent = 1})

\* C20: the ToWork of a place are handled one by one in list order, each
\* once; a step counts a replacement exactly when it left the ToWork
\* replaced (all three calls done), and otherwise sends one record; and
\* when the place is serialized, replacements is the number of ToWork
\* replaced and replacements + records sent for the place = the number of
\* its ToWork.
C20_EachWorkOnce ==
  /\ []((pc = "process" /\ place_idx <= Len(places_data)) =>
          /\ Len(handled) = work_idx - 1
          /\ \A i \in 1..Len(handled) :
               /\ handled[i].work = i
               /\ handled[i].replaced \in {0, 1} /\ handled[i].sent \in {0, 1}
               /\ handled[i].replaced + handled[i].sent = 1
          /\ replacements = SumReplaced
          /\ AtSave =>
               /\ Len(handled) = Len(CurrentPlace.to_work)
               /\ replacements + SumSent = Len(CurrentPlace.to_work))
  /\ [][(AtWork /\ pc' = "process") =>
          /\ work_idx' = work_idx + 1 /\ place_idx' = place_idx
          /\ Len(failed') - Len(failed) = handled'[work_idx].sent
          /\ handled'[work_idx].replaced = 1 <=>
               Replaced(places_data'[place_idx].dom, CurrentWork, Refs(CurrentPlace.dom))
          /\ handled'[work_idx].replaced = 0 => places_data' = places_data]_vars
  /\ [][(AtSave /\ saved_places' # saved_places) =>
          /\ replacements = SumReplaced
          /\ replacements + SumSent = Len(CurrentPlace.to_work)]_vars

C20_Witness ==
  /\ AtSave
  /\ Len(CurrentPlace.to_work) = 2
  /\ replacements = 1
  /\ SumSent = 1
  /\ handled[1].sent = 1 /\ handled[2].replaced = 1


\* ------------------------------------------------------ channel claims
IsPrefix(a, b) == Len(a) <= Len(b) /\ \A i \in 1..Len(a) : b[i] = a[i]

\* every record printed so far, in the order of printing
Printed == early_failures \o remaining \o failures

Draining == {"drain_early", "declined", "drain_final"}

\* C21: a step that sends only appends to the channel and prints nothing;
\* a drain moves every record of the channel, in order, to the list it
\* prints, so no record is lost or printed twice; when main reaches either
\* final recv loop its own sender is the only one alive, so the loop ends
\* once main has dropped it; and at the end of the run the channel is empty.
C21_EveryRecordDelivered ==
  /\ [][(pc \notin Draining) =>
          (Printed' = Printed /\ IsPrefix(failed, failed'))]_vars
  /\ [][(pc \in Draining) =>
          /\ failed' = <<>>
          /\ Printed' \o failed' = Printed \o failed
          /\ IsPrefix(Printed, Printed')]_vars
  /\ [](pc \in {"declined", "drain_final"} => senders = 1)
  /\ [](pc = "done" => failed = <<>> /\ senders = 0)

C21_Witness ==
  /\ pc = "done"
  /\ publish_confirm[1].yes
  /\ Len(early_failures) >= 2
  /\ Len(failures) >= 1
  /\ early_failures[1].kind = "place_meta_failed"
  /\ \E i \in 1..Len(early_failures) : early_failures[i].kind = "fetch_failed"


\* C22 (as claimed): when the collector returns, its loop has handled
\* every place of the universe exactly once, those on the pages after the
\* first included.
C22_EveryPlaceEnumerated ==
  pc = "dedup" => collect_idx - 1 = Len(listing) + Len(more_places)


\* ------------------------------------------------- claims left implicit
\* C23 (as claimed): when a ToWork is handled, each of its three referents
\* that named an instance of the place as decoded still names a live one:
\* no earlier transplant of the place has removed it.
C23_ReferentsStayLive ==
  AtWork =>
    \A r \in {CurrentWork.package_link, CurrentWork.package_link_group,
               CurrentWork.package_link_parent} \cap DecodedRefs(place_idx) :
      r \in Refs(CurrentPlace.dom)

\* C24 (as claimed): in every ToWork the scan pushes, package_link_group is
\* not the root of the place DOM and package_link_parent is an instance of
\* it.
C24_WrapperBelowRoot ==
  pc \in {"collect", "dedup"} =>
    \A p \in 1..Len(places_data) : \A i \in 1..Len(places_data[p].to_work) :
      /\ places_data[p].to_work[i].package_link_group # places_data[p].dom.root
      /\ places_data[p].to_work[i].package_link_parent \in Refs(places_data[p].dom)

\* main prints "All operations completed successfully."
AllCompletedSuccessfully ==
  pc = "done" /\ publish_confirm[1].yes /\ failures = <<>>

\* C25 (as claimed): "All operations completed successfully." is printed
\* only on a run in which no record was sent.
C25_SuccessMeansNoRecord ==
  AllCompletedSuccessfully => early_failures = <<>> /\ remaining = <<>>

\* C26: an upload request is issued only after the answer "yes" in any
\* case; at the prompt every place is handled and saved with its file
\* written and every record sent so far is printed; and after any other
\* answer no upload is ever issued and the files stay as written.
C26_PublishOnlyOnYes ==
  /\ (uploads # <<>> =>
          publish_confirm # <<>> /\ publish_confirm[1].answer \in {"yes", "YES"})
  /\ (pc = "prompt" =>
          /\ place_idx = Len(places_data) + 1
          /\ Len(saved_places) = Len(places_data)
          /\ \A k \in 1..Len(places_data) :
               /\ saved_places[k].id = places_data[k].id
               /\ places_data[k].id \in DOMAIN files
               /\ files[places_data[k].id] = saved_places[k].buffer
          /\ failed = <<>>
          /\ uploads = <<>>)
  /\ ((publish_confirm # <<>> /\ publish_confirm[1].answer \notin {"yes", "YES"}) =>
          /\ pc \in {"declined", "done"}
          /\ uploads = <<>> /\ ptask = <<>>
          /\ \A k \in 1..Len(saved_places) :
               /\ saved_places[k].id \in DOMAIN files
               /\ files[saved_places[k].id] = saved_places[k].buffer)

C26_Witness ==
  /\ pc = "done"
  /\ publish_confirm[1].answer = "YES"
  /\ Len(saved_places) = 2
  /\ \A k \in 1..Len(saved_places) : Count(uploads, saved_places[k].id) = 1
  /\ early_failures # <<>>

====
